---- MODULE Spec2Model ----
(***************************************************************************)
(* Model of chainerrl/experiments/evaluator.py: the single-process         *)
(* Evaluator and the multi-process AsyncEvaluator.                          *)
(*                                                                         *)
(* The environment, the agent and the explorer are external.  Inside the   *)
(* two classes one pass of eval_performance is modelled by the mean it     *)
(* returns, drawn from Means; the function itself, with its episode loop   *)
(* and its statistics, is modelled step by step in EvalPerformanceSpec.    *)
(* Means are whole numbers around 2^24, where a 64-bit float still holds   *)
(* every integer exactly and a 32-bit float (the 'f' cell of               *)
(* AsyncEvaluator._max_score) no longer does.                              *)
(***************************************************************************)
EXTENDS Integers, Sequences, FiniteSets, TLC

(* ---------------------------- bounds ---------------------------------- *)
NWorkers == 2
MaxT == 4
MaxWorkerT == 2
MaxInterval == 2
MaxOffset == 1
MaxMeanOffset == 1
MaxFailures == 1
MaxRuns == 2
MaxEpisodeLen == 2
MaxSteps == 2
MaxReward == 1

(* ------------------------ program constants --------------------------- *)
\* precision (in bits) of the significand of a C float, mp.Value('f', ...)
MantissaBits == 24
\* np.finfo(np.float32).min = -3.4028235e38.  TLC integers are 32 bits wide,
\* so the model uses the smallest value it can hold; only its order with
\* respect to the means matters, and it lies below every element of Means.
Float32Min == -2147483647
\* Python's None, as returned by evaluate_if_necessary
None == -1

Workers == 1..NWorkers
\* step counts passed to Evaluator.evaluate_if_necessary
Steps == 0..MaxT
\* step counts passed by the workers to AsyncEvaluator.evaluate_if_necessary
WorkerSteps == 0..MaxWorkerT
Intervals == 1..MaxInterval
Offsets == 0..MaxOffset
Means == (2^MantissaBits - 1)..(2^MantissaBits + MaxMeanOffset)

(* ------------------------- pure functions ----------------------------- *)
RECURSIVE Log2Floor(_)
Log2Floor(x) == IF x < 2 THEN 0 ELSE 1 + Log2Floor(x \div 2)

\* Conversion of a 64-bit float holding the integer x (x >= 0) to a C float:
\* round to the nearest value with a MantissaBits-bit significand, ties to
\* the even significand.
Float32(x) ==
    LET e == Log2Floor(x)
        ulp == IF e < MantissaBits THEN 1 ELSE 2^(e - MantissaBits + 1)
        q == x \div ulp
        r == x % ulp
    IN  IF 2 * r < ulp THEN q * ulp
        ELSE IF 2 * r > ulp THEN (q + 1) * ulp
        ELSE IF q % 2 = 0 THEN q * ulp
        ELSE (q + 1) * ulp

\* Evaluator.max_score is a plain attribute: the mean is stored as it is.
Float64(x) == x

\* A variant that keeps the value as it is, off the interval grid.
AlignNone(tt, interval) == tt

\* step_offset - step_offset % eval_interval, and t - t % eval_interval
AlignDown(tt, interval) == tt - (tt % interval)

DueStrict(tt, prev, interval) == tt > prev + interval
DueEarly(tt, prev, interval) == tt + 1 >= prev + interval
\* the test `t >= prev_eval_t + eval_interval`
Due(tt, prev, interval) == tt >= prev + interval

IsNewBestOrEqual(m, best) == m >= best
\* the test `mean > max_score`
IsNewBest(m, best) == m > best

AdvanceAligned(tt, prev, interval) == tt - (tt % interval)
\* AsyncEvaluator: `self.prev_eval_t.value += self.eval_interval`
Advance(tt, prev, interval) == prev + interval

HeaderAlways(flag) == TRUE
\* the test `not self.wrote_header.value`
HeaderMissing(flag) == ~flag

\* The lines of scores.txt: the header, a data row with its steps column,
\* and a line left by an earlier run.
HeaderLine == [header |-> TRUE, steps |-> None]
Row(tt) == [header |-> FALSE, steps |-> tt]
OldLine == [header |-> FALSE, steps |-> None]
\* what scores.txt may hold before the evaluator is constructed
OldFiles == {<<>>, <<OldLine>>}

OpenAppendWrite(old, line) == Append(old, line)
\* open(path, 'w') and print(line): the file is truncated first
OpenWrite(old, line) == <<line>>
\* open(path, 'a+') and print(line), as record_stats does
AppendLine(old, line) == Append(old, line)

\* Where a call can raise: in eval_performance (environment or agent), in
\* get_statistics or record_stats (the log write), in agent.save, and, for
\* AsyncEvaluator, in write_header.
FailurePoints == {"none", "episodes", "log", "save"}

AbortsNever(raised) == FALSE
\* No try/except anywhere: a step that raises ends the call there.
Aborts(raised) == raised

SetMax(xs) == CHOOSE x \in xs : \A y \in xs : y <= x

(* ------------------- eval_performance: pure parts --------------------- *)
\* n_runs, max_episode_len (None when unset) and the rewards of env.step
Runs == 0..MaxRuns
EpisodeLens == {None} \cup (0..MaxEpisodeLen)
Rewards == 0..MaxReward

\* A variant of the loop test without the cap on the episode length.
LoopEndsOnDone(d, tt, len) == d

\* `while not (done or t == max_episode_len)`: the condition that ends the
\* loop.  An unset max_episode_len (None) is equal to no t.
LoopEnds(d, tt, len) == d \/ (len # None /\ tt = len)

\* A variant that asks for the sample standard deviation of a single score.
HasStdevAlways(n) == n >= 1

\* `if n_runs >= 2`
HasStdev(n) == n >= 2

\* The calls made on the environment and the agent.
Ev(op, d, r) == [op |-> op, done |-> d, r |-> r]
ResetEv == Ev("reset", FALSE, 0)
ActEv == Ev("act", FALSE, 0)
StopEv == Ev("stop_episode", FALSE, 0)

RECURSIVE Sum(_)
Sum(seq) == IF seq = <<>> THEN 0 ELSE seq[1] + Sum(Tail(seq))

RECURSIVE GCD(_, _)
GCD(a, b) == IF b = 0 THEN a ELSE GCD(b, a % b)

Abs(x) == IF x < 0 THEN -x ELSE x

\* The statistics are exact rationals num/den in lowest terms, or the square
\* root of one (root = 2) where that root is not rational.
Frac(n, d) ==
    LET g == GCD(Abs(n), d)
    IN  [num |-> n \div g, den |-> d \div g, root |-> 1]

IsSquare(n) == \E k \in 0..n : k * k = n
Root(n) == CHOOSE k \in 0..n : k * k = n

Sqrt(f) ==
    IF IsSquare(f.num) /\ IsSquare(f.den)
    THEN [num |-> Root(f.num), den |-> Root(f.den), root |-> 1]
    ELSE [num |-> f.num, den |-> f.den, root |-> 2]

\* statistics.mean, statistics.median and statistics.stdev of a non-empty
\* list of scores (stdev: of at least two)
StatMean(xs) == Frac(Sum(xs), Len(xs))

StatMedian(xs) ==
    LET n == Len(xs)
        sorted == SortSeq(xs, LAMBDA a, b : a < b)
    IN  IF n % 2 = 1 THEN Frac(sorted[(n + 1) \div 2], 1)
        ELSE Frac(sorted[n \div 2] + sorted[n \div 2 + 1], 2)

StatStdev(xs) ==
    LET n == Len(xs)
        sq == [k \in 1..n |-> (n * xs[k] - Sum(xs)) * (n * xs[k] - Sum(xs))]
    IN  Sqrt(Frac(Sum(sq), n * n * (n - 1)))

\* `stdev = 0.`
Zero == Frac(0, 1)

\* The result while eval_performance has not returned: no value, written as
\* a statistic with denominator 0.
NoStat == [num |-> 0, den |-> 0, root |-> 1]
NoResult == [mean |-> NoStat, median |-> NoStat, stdev |-> NoStat]

(* ------------------------------ state --------------------------------- *)
VARIABLES
    kind,           \* which class was constructed: "Evaluator" | "AsyncEvaluator"
    eval_interval,  \* self.eval_interval
    step_offset,    \* self.step_offset
    prev_eval_t,    \* self.prev_eval_t (AsyncEvaluator: the shared 'l' cell)
    max_score,      \* self.max_score (AsyncEvaluator: the shared 'f' cell)
    wrote_header,   \* AsyncEvaluator.wrote_header (the shared 'b' cell)
    prev_lock,      \* holder of prev_eval_t.get_lock(), 0 when free
    header_lock,    \* holder of wrote_header.get_lock(), 0 when free
    max_lock,       \* holder of _max_score.get_lock(), 0 when free
    pc,             \* per caller: position in its current call
    t,              \* per caller: the argument t of its current call
    necessary,      \* per caller: the local `necessary`
    mean,           \* per caller: the local `mean` (None before eval_performance)
    ret,            \* per caller: the value the call returns (None or a mean)
    v,              \* per caller: the local `v` of the max_score accessor
    obs,            \* per caller: what its current call has done so far
    header_writes,  \* number of header lines written to scores.txt
    checkpoints,    \* the agent.save calls of update_best_model, in order
    committed,      \* means whose comparison with max_score has completed
    claims,         \* the evaluations started, in order: caller, t, how it failed
    scores_txt,     \* the lines of outdir/scores.txt
    n_runs,         \* eval_performance: the argument n_runs
    max_episode_len,\* eval_performance: the argument max_episode_len
    ep_pc,          \* eval_performance: position in the function
    ep_i,           \* eval_performance: the loop variable i of `for i in range(n_runs)`
    ep_t,           \* eval_performance: the local t, steps of the episode so far
    done,           \* eval_performance: the local done
    test_r,         \* eval_performance: the local test_r
    scores,         \* eval_performance: the local scores
    result,         \* eval_performance: the tuple it returns
    calls           \* calls made on env and agent by eval_performance, in order

vars == <<kind, eval_interval, step_offset, prev_eval_t, max_score, wrote_header,
          prev_lock, header_lock, max_lock, pc, t, necessary, mean, ret, v, obs,
          header_writes, checkpoints, committed, claims, scores_txt,
          n_runs, max_episode_len, ep_pc, ep_i, ep_t, done, test_r, scores, result,
          calls>>

shared == <<prev_eval_t, max_score, wrote_header>>
locks == <<prev_lock, header_lock, max_lock>>
params == <<kind, eval_interval, step_offset>>
episode == <<n_runs, max_episode_len, ep_pc, ep_i, ep_t, done, test_r, scores, result,
             calls>>
evaluator == <<kind, eval_interval, step_offset, prev_eval_t, max_score,
               wrote_header, prev_lock, header_lock, max_lock, pc, t, necessary,
               mean, ret, v, obs, header_writes, checkpoints, committed, claims,
               scores_txt>>

LockIgnored(lock) == TRUE
LockShared(lock) == lock = 0 /\ prev_lock = 0 /\ header_lock = 0 /\ max_lock = 0
\* `with cell.get_lock():` blocks until no process holds the lock
LockFree(lock) == lock = 0

\* What one call has done: the value of prev_eval_t when the call started,
\* the value it found in its test and the value it wrote if it was due,
\* the max_score it compared its mean with, whether it saved a checkpoint and
\* assigned max_score, how many eval_performance passes and log rows it made,
\* and the step that raised, if one did.
NoObs(p) == [prev_at_call |-> p, found |-> None, prev_after |-> None,
             old_max |-> None, saved |-> FALSE, assigned |-> FALSE,
             passes |-> 0, rows |-> 0, failed |-> "none"]

\* The caller of the single-process Evaluator.
Main == 1

Last(seq) == seq[Len(seq)]

\* the first value of prev_eval_t
InitialPrev == AlignDown(step_offset, eval_interval)

\* The collaborators (environment, agent, file system) raise at most
\* MaxFailures times in a run.
FailuresSoFar == Cardinality({i \in 1..Len(claims) : claims[i].failed # "none"})
CanFail == FailuresSoFar < MaxFailures

(* ---------------------------- construction ---------------------------- *)
\* State shared by both constructors once kind, eval_interval and
\* step_offset are chosen.
Constructed(k, interval, offset, old) ==
    /\ kind = k
    /\ eval_interval = interval
    /\ step_offset = offset
    /\ prev_eval_t = AlignDown(offset, interval)
    /\ max_score = Float32Min
    /\ wrote_header = FALSE
    /\ prev_lock = 0 /\ header_lock = 0 /\ max_lock = 0
    /\ pc = [w \in Workers |-> "idle"]
    /\ t = [w \in Workers |-> None]
    /\ necessary = [w \in Workers |-> FALSE]
    /\ mean = [w \in Workers |-> None]
    /\ ret = [w \in Workers |-> None]
    /\ v = [w \in Workers |-> None]
    /\ obs = [w \in Workers |-> NoObs(None)]
    \* Evaluator.__init__ writes the header line; AsyncEvaluator.__init__ does not
    /\ header_writes = IF k = "Evaluator" THEN 1 ELSE 0
    /\ checkpoints = <<>>
    /\ committed = {}
    /\ claims = <<>>
    \* Evaluator.__init__ opens scores.txt with 'w', AsyncEvaluator.__init__ with 'a'
    /\ scores_txt = IF k = "Evaluator" THEN OpenWrite(old, HeaderLine) ELSE old

\* No call of eval_performance is followed step by step.
NoEvalPerformance ==
    /\ n_runs = None /\ max_episode_len = None
    /\ ep_pc = "idle"
    /\ ep_i = None /\ ep_t = None /\ done = FALSE /\ test_r = None
    /\ scores = <<>> /\ result = NoResult /\ calls = <<>>

EvaluatorInit ==
    \E interval \in Intervals, offset \in Offsets, old \in OldFiles :
        Constructed("Evaluator", interval, offset, old) /\ NoEvalPerformance

AsyncEvaluatorInit ==
    \E interval \in Intervals, offset \in Offsets, old \in OldFiles :
        Constructed("AsyncEvaluator", interval, offset, old) /\ NoEvalPerformance

Init == EvaluatorInit \/ AsyncEvaluatorInit

(* ------------------------- Evaluator (single process) ----------------- *)
\* Evaluator.evaluate_if_necessary(tt), with m the mean that eval_performance
\* returns if it is run and f the step that raises, if any.  The whole call is
\* one step: nothing else runs.
EvaluateIfNecessary(tt, m, f) ==
    LET due == Due(tt, prev_eval_t, eval_interval)
        \* eval_performance (lines 96-99)
        fail_episodes == due /\ f = "episodes"
        pass == due /\ ~fail_episodes
        \* get_statistics and record_stats (lines 100-103)
        at_log == due /\ ~Aborts(fail_episodes)
        fail_log == at_log /\ f = "log"
        row == at_log /\ ~fail_log
        \* the comparison and update_best_model (lines 104-106)
        at_compare == at_log /\ ~Aborts(fail_log)
        best == at_compare /\ IsNewBest(m, max_score)
        fail_save == best /\ f = "save"
        saved == best /\ ~fail_save
        \* the assignment of max_score and the rest of the call (lines 107-114)
        assigned == best /\ ~Aborts(fail_save)
        finished == at_compare /\ ~Aborts(fail_save)
        failed == IF fail_episodes THEN "episodes"
                  ELSE IF fail_log THEN "log"
                  ELSE IF fail_save THEN "save"
                  ELSE "none"
        aligned == AlignDown(tt, eval_interval)
    IN  /\ kind = "Evaluator"
        /\ (f # "none") => CanFail
        /\ t' = [t EXCEPT ![Main] = tt]
        /\ pc' = [pc EXCEPT ![Main] = IF due /\ ~finished THEN "raised" ELSE "done"]
        /\ necessary' = [necessary EXCEPT ![Main] = due]
        /\ mean' = [mean EXCEPT ![Main] = IF pass THEN m ELSE None]
        /\ ret' = [ret EXCEPT ![Main] = IF finished THEN m ELSE None]
        /\ scores_txt' = IF row THEN AppendLine(scores_txt, Row(tt)) ELSE scores_txt
        /\ max_score' = IF assigned THEN Float64(m) ELSE max_score
        /\ checkpoints' = IF saved
                          THEN Append(checkpoints,
                                      [t |-> tt, mean |-> m, window |-> prev_eval_t])
                          ELSE checkpoints
        /\ committed' = IF finished THEN committed \cup {m} ELSE committed
        /\ claims' = IF due
                     THEN Append(claims, [w |-> Main, t |-> tt, failed |-> failed])
                     ELSE claims
        /\ prev_eval_t' = IF finished THEN aligned ELSE prev_eval_t
        /\ obs' = [obs EXCEPT ![Main] =
                     IF due
                     THEN [prev_at_call |-> prev_eval_t, found |-> prev_eval_t,
                           prev_after |-> IF finished THEN aligned ELSE None,
                           old_max |-> max_score, saved |-> saved,
                           assigned |-> assigned,
                           passes |-> IF pass THEN 1 ELSE 0,
                           rows |-> IF row THEN 1 ELSE 0,
                           failed |-> failed]
                     ELSE [NoObs(prev_eval_t) EXCEPT !.found = prev_eval_t]]
        /\ UNCHANGED <<params, episode, wrote_header, locks, v, header_writes>>

EvaluatorNext ==
    \E tt \in Steps, m \in Means, f \in FailurePoints : EvaluateIfNecessary(tt, m, f)

EvaluatorSpec == EvaluatorInit /\ [][EvaluatorNext]_vars

(* ---------------------- AsyncEvaluator (many processes) --------------- *)
\* A worker calls evaluate_if_necessary(tt, env, agent): necessary = False.
Call(w, tt) ==
    /\ kind = "AsyncEvaluator"
    /\ pc[w] = "idle"
    /\ pc' = [pc EXCEPT ![w] = "acq_prev"]
    /\ t' = [t EXCEPT ![w] = tt]
    /\ obs' = [obs EXCEPT ![w] = NoObs(prev_eval_t)]
    /\ UNCHANGED <<params, episode, shared, locks, necessary, mean, ret, v,
                   header_writes, checkpoints, committed, claims, scores_txt>>

\* Entering `with self.prev_eval_t.get_lock():` and the test of line 176.
TestDue(w) ==
    LET due == Due(t[w], prev_eval_t, eval_interval)
    IN  /\ pc[w] = "acq_prev"
        /\ LockFree(prev_lock)
        /\ prev_lock' = w
        /\ pc' = [pc EXCEPT ![w] = IF due THEN "incr" ELSE "rel_prev"]
        /\ necessary' = [necessary EXCEPT ![w] = due]
        /\ obs' = [obs EXCEPT ![w].found = prev_eval_t]
        /\ UNCHANGED <<params, episode, shared, header_lock, max_lock, t, mean, ret, v,
                       header_writes, checkpoints, committed, claims, scores_txt>>

\* self.prev_eval_t.value += self.eval_interval, the lock still held.
ClaimEvaluation(w) ==
    LET after == Advance(t[w], prev_eval_t, eval_interval)
    IN  /\ pc[w] = "incr"
        /\ pc' = [pc EXCEPT ![w] = "rel_prev"]
        /\ prev_eval_t' = after
        /\ claims' = Append(claims, [w |-> w, t |-> t[w], failed |-> "none"])
        /\ obs' = [obs EXCEPT ![w].prev_after = after]
        /\ UNCHANGED <<params, episode, max_score, wrote_header, locks, t, necessary, mean,
                       ret, v, header_writes, checkpoints, committed, scores_txt>>

\* A variant that leaves the `with` block of prev_eval_t without releasing
\* its lock.
KeepPrevLock(w) ==
    /\ pc[w] = "rel_prev"
    /\ pc' = [pc EXCEPT ![w] = IF necessary[w] THEN "acq_hdr" ELSE "done"]
    /\ ret' = [ret EXCEPT ![w] = None]
    /\ UNCHANGED <<params, episode, shared, locks, t, necessary, mean, v,
                   obs, header_writes, checkpoints, committed, claims, scores_txt>>

\* Leaving the `with` block; a call that is not necessary returns None.
ReleasePrevLock(w) ==
    /\ pc[w] = "rel_prev"
    /\ prev_lock' = 0
    /\ pc' = [pc EXCEPT ![w] = IF necessary[w] THEN "acq_hdr" ELSE "done"]
    /\ ret' = [ret EXCEPT ![w] = None]
    /\ UNCHANGED <<params, episode, shared, header_lock, max_lock, t, necessary, mean, v,
                   obs, header_writes, checkpoints, committed, claims, scores_txt>>

\* Under the lock of wrote_header: write_header(agent) unless already written.
WriteHeaderIfFirst(w) ==
    LET first == HeaderMissing(wrote_header)
    IN  /\ pc[w] = "acq_hdr"
        /\ LockFree(header_lock)
        /\ header_lock' = w
        /\ pc' = [pc EXCEPT ![w] = "rel_hdr"]
        /\ header_writes' = IF first THEN header_writes + 1 ELSE header_writes
        /\ scores_txt' = IF first THEN OpenWrite(scores_txt, HeaderLine) ELSE scores_txt
        /\ wrote_header' = (first \/ wrote_header)
        /\ UNCHANGED <<params, episode, prev_eval_t, max_score, prev_lock, max_lock, t,
                       necessary, mean, ret, v, obs, checkpoints, committed, claims>>

ReleaseHeaderLock(w) ==
    /\ pc[w] = "rel_hdr"
    /\ header_lock' = 0
    /\ pc' = [pc EXCEPT ![w] = "eval"]
    /\ UNCHANGED <<params, episode, shared, prev_lock, max_lock, t, necessary, mean, ret, v,
                   obs, header_writes, checkpoints, committed, claims, scores_txt>>

\* eval_performance(env, agent, n_runs, ...) returns the mean m; no lock held.
EvalPerformance(w, m) ==
    /\ pc[w] = "eval"
    /\ pc' = [pc EXCEPT ![w] = "record"]
    /\ mean' = [mean EXCEPT ![w] = m]
    /\ obs' = [obs EXCEPT ![w].passes = @ + 1]
    /\ UNCHANGED <<params, episode, shared, locks, t, necessary, ret, v,
                   header_writes, checkpoints, committed, claims, scores_txt>>

\* record_stats(outdir, values): one row appended; no lock held.
RecordStats(w) ==
    /\ pc[w] = "record"
    /\ pc' = [pc EXCEPT ![w] = "acq_max"]
    /\ obs' = [obs EXCEPT ![w].rows = @ + 1]
    /\ scores_txt' = AppendLine(scores_txt, Row(t[w]))
    /\ UNCHANGED <<params, episode, shared, locks, t, necessary, mean, ret, v,
                   header_writes, checkpoints, committed, claims>>

\* Under the lock of _max_score: the comparison of mean with max_score.
CompareMax(w) ==
    /\ pc[w] = "acq_max"
    /\ LockFree(max_lock)
    /\ max_lock' = w
    /\ pc' = [pc EXCEPT ![w] = IF IsNewBest(mean[w], max_score)
                               THEN "save" ELSE "rel_max"]
    /\ obs' = [obs EXCEPT ![w].old_max = max_score]
    /\ UNCHANGED <<params, episode, shared, prev_lock, header_lock, t, necessary, mean, ret,
                   v, header_writes, checkpoints, committed, claims, scores_txt>>

\* update_best_model -> save_agent -> agent.save(outdir/<t>), lock still held.
UpdateBestModel(w) ==
    /\ pc[w] = "save"
    /\ pc' = [pc EXCEPT ![w] = "set_max"]
    /\ checkpoints' = Append(checkpoints,
                             [t |-> t[w], mean |-> mean[w], window |-> obs[w].found])
    /\ obs' = [obs EXCEPT ![w].saved = TRUE]
    /\ UNCHANGED <<params, episode, shared, locks, t, necessary, mean, ret, v,
                   header_writes, committed, claims, scores_txt>>

\* self._max_score.value = mean: the mean is stored in a C float.
AssignMax(w) ==
    /\ pc[w] = "set_max"
    /\ pc' = [pc EXCEPT ![w] = "rel_max"]
    /\ max_score' = Float32(mean[w])
    /\ obs' = [obs EXCEPT ![w].assigned = TRUE]
    /\ UNCHANGED <<params, episode, prev_eval_t, wrote_header, locks, t, necessary, mean,
                   ret, v, header_writes, checkpoints, committed, claims, scores_txt>>

\* Leaving the `with` block and returning mean.
ReleaseMaxLock(w) ==
    /\ pc[w] = "rel_max"
    /\ max_lock' = 0
    /\ pc' = [pc EXCEPT ![w] = "done"]
    /\ ret' = [ret EXCEPT ![w] = mean[w]]
    /\ committed' = committed \cup {mean[w]}
    /\ UNCHANGED <<params, episode, shared, prev_lock, header_lock, t, necessary, mean, v,
                   obs, header_writes, checkpoints, claims, scores_txt>>

\* The caller takes the returned value or the exception; the call's locals
\* are gone.
Return(w) ==
    /\ kind = "AsyncEvaluator"
    /\ pc[w] \in {"done", "raised"}
    /\ pc' = [pc EXCEPT ![w] = "idle"]
    /\ t' = [t EXCEPT ![w] = None]
    /\ necessary' = [necessary EXCEPT ![w] = FALSE]
    /\ mean' = [mean EXCEPT ![w] = None]
    /\ ret' = [ret EXCEPT ![w] = None]
    /\ obs' = [obs EXCEPT ![w] = NoObs(None)]
    /\ UNCHANGED <<params, episode, shared, locks, v, header_writes, checkpoints,
                   committed, claims, scores_txt>>

\* The index in claims of the evaluation the current call of w has claimed.
ClaimIndex(w) == (obs[w].found - InitialPrev) \div eval_interval + 1

\* The call of w ends with an exception raised by step f.
Raise(w, f, next) ==
    /\ CanFail
    /\ pc' = [pc EXCEPT ![w] = IF Aborts(TRUE) THEN "raised" ELSE next]
    /\ obs' = [obs EXCEPT ![w].failed = f]
    /\ claims' = [claims EXCEPT ![ClaimIndex(w)].failed = f]

\* write_header raises (open, get_statistics or print): the `with` block
\* releases the lock of wrote_header, which stays False; the file may or may
\* not have been truncated by open(path, 'w').
FailWriteHeader(w, truncated) ==
    /\ pc[w] = "acq_hdr"
    /\ LockFree(header_lock)
    /\ HeaderMissing(wrote_header)
    /\ Raise(w, "header", "eval")
    /\ scores_txt' = IF truncated THEN <<>> ELSE scores_txt
    /\ UNCHANGED <<params, episode, shared, locks, t, necessary, mean, ret, v,
                   header_writes, checkpoints, committed>>

\* eval_performance raises (the environment, the agent or the explorer).
FailEvalPerformance(w) ==
    /\ pc[w] = "eval"
    /\ Raise(w, "episodes", "record")
    /\ UNCHANGED <<params, episode, shared, locks, t, necessary, mean, ret, v,
                   header_writes, checkpoints, committed, scores_txt>>

\* agent.get_statistics or record_stats raises: no row is written.
FailRecordStats(w) ==
    /\ pc[w] = "record"
    /\ Raise(w, "log", "acq_max")
    /\ UNCHANGED <<params, episode, shared, locks, t, necessary, mean, ret, v,
                   header_writes, checkpoints, committed, scores_txt>>

\* agent.save raises inside update_best_model: the `with` block releases the
\* lock of _max_score.
FailSave(w) ==
    /\ pc[w] = "save"
    /\ Raise(w, "save", "set_max")
    /\ max_lock' = IF Aborts(TRUE) THEN 0 ELSE max_lock
    /\ UNCHANGED <<params, episode, shared, prev_lock, header_lock, t, necessary, mean, ret,
                   v, header_writes, checkpoints, committed, scores_txt>>

\* A worker reads the max_score property and arrives at the `with` statement.
MaxScoreCall(w) ==
    /\ kind = "AsyncEvaluator"
    /\ pc[w] = "idle"
    /\ pc' = [pc EXCEPT ![w] = "acq_rd"]
    /\ UNCHANGED <<params, episode, shared, locks, t, necessary, mean, ret, v, obs,
                   header_writes, checkpoints, committed, claims, scores_txt>>

\* The max_score property: under the lock of _max_score, v = value.
MaxScoreRead(w) ==
    /\ pc[w] = "acq_rd"
    /\ LockFree(max_lock)
    /\ max_lock' = w
    /\ pc' = [pc EXCEPT ![w] = "rd_max"]
    /\ v' = [v EXCEPT ![w] = max_score]
    /\ UNCHANGED <<params, episode, shared, prev_lock, header_lock, t, necessary, mean, ret,
                   obs, header_writes, checkpoints, committed, claims, scores_txt>>

\* Leaving the `with` block; `return v`.
MaxScoreReturn(w) ==
    /\ pc[w] = "rd_max"
    /\ max_lock' = 0
    /\ pc' = [pc EXCEPT ![w] = "idle"]
    /\ v' = [v EXCEPT ![w] = None]
    /\ UNCHANGED <<params, episode, shared, prev_lock, header_lock, t, necessary, mean, ret,
                   obs, header_writes, checkpoints, committed, claims, scores_txt>>

AsyncEvaluatorNext ==
    \E w \in Workers :
        \/ \E tt \in WorkerSteps : Call(w, tt)
        \/ TestDue(w)
        \/ ClaimEvaluation(w)
        \/ ReleasePrevLock(w)
        \/ WriteHeaderIfFirst(w)
        \/ ReleaseHeaderLock(w)
        \/ \E m \in Means : EvalPerformance(w, m)
        \/ RecordStats(w)
        \/ CompareMax(w)
        \/ UpdateBestModel(w)
        \/ AssignMax(w)
        \/ ReleaseMaxLock(w)
        \/ \E truncated \in BOOLEAN : FailWriteHeader(w, truncated)
        \/ FailEvalPerformance(w)
        \/ FailRecordStats(w)
        \/ FailSave(w)
        \/ Return(w)
        \/ MaxScoreCall(w)
        \/ MaxScoreRead(w)
        \/ MaxScoreReturn(w)

AsyncEvaluatorSpec == AsyncEvaluatorInit /\ [][AsyncEvaluatorNext]_vars

\* The steps of worker w inside a call of evaluate_if_necessary or a read of
\* max_score: everything but the start of a call and the caller's own
\* continuation after the call has ended.
WorkerStep(w) ==
    \/ TestDue(w)
    \/ ClaimEvaluation(w)
    \/ ReleasePrevLock(w)
    \/ WriteHeaderIfFirst(w)
    \/ ReleaseHeaderLock(w)
    \/ \E m \in Means : EvalPerformance(w, m)
    \/ RecordStats(w)
    \/ CompareMax(w)
    \/ UpdateBestModel(w)
    \/ AssignMax(w)
    \/ ReleaseMaxLock(w)
    \/ \E truncated \in BOOLEAN : FailWriteHeader(w, truncated)
    \/ FailEvalPerformance(w)
    \/ FailRecordStats(w)
    \/ FailSave(w)
    \/ MaxScoreRead(w)
    \/ MaxScoreReturn(w)

\* Fair scheduling of the worker processes, terminating episodes and I/O, and
\* locks that a waiting process gets if they are free again and again: a step
\* of a worker that is enabled infinitely often is eventually taken.
AsyncEvaluatorFairSpec ==
    AsyncEvaluatorSpec /\ \A w \in Workers : SF_vars(WorkerStep(w))

Next == EvaluatorNext \/ AsyncEvaluatorNext

Spec == Init /\ [][Next]_vars

(* --------------------------- eval_performance ------------------------- *)
\* eval_performance(env, agent, n, max_episode_len = len) has been called,
\* here on behalf of an Evaluator, whose state it does not touch:
\* `scores = []`, and the for loop is about to start.
EvalPerformanceInit ==
    /\ Constructed("Evaluator", 1, 0, <<>>)
    /\ \E n \in Runs, len \in EpisodeLens :
           /\ n_runs = n
           /\ max_episode_len = len
    /\ ep_pc = "for"
    /\ ep_i = 0
    /\ ep_t = None /\ done = FALSE /\ test_r = None
    /\ scores = <<>>
    /\ result = NoResult
    /\ calls = <<>>

\* `for i in range(n_runs)`, next episode: obs = env.reset(), done = False,
\* test_r = 0, t = 0.
ResetEnv ==
    /\ ep_pc = "for"
    /\ ep_i < n_runs
    /\ calls' = Append(calls, ResetEv)
    /\ done' = FALSE
    /\ test_r' = 0
    /\ ep_t' = 0
    /\ ep_pc' = "while"
    /\ UNCHANGED <<evaluator, n_runs, max_episode_len, ep_i, scores, result>>

\* One pass of the while loop: the action is selected (explorer or
\* agent.act), env.step(a) returns reward r and done = d, test_r += r, t += 1.
\* An episode with no cap is followed for MaxSteps steps.
EnvStep(r, d) ==
    /\ ep_pc = "while"
    /\ ~LoopEnds(done, ep_t, max_episode_len)
    /\ ep_t < MaxSteps \/ max_episode_len # None
    /\ calls' = calls \o <<ActEv, Ev("step", d, r)>>
    /\ done' = d
    /\ test_r' = test_r + r
    /\ ep_t' = ep_t + 1
    /\ UNCHANGED <<evaluator, n_runs, max_episode_len, ep_pc, ep_i, scores, result>>

\* The while loop has ended: agent.stop_episode(),
\* scores.append(float(test_r)), and on to the next i.
StopEpisode ==
    /\ ep_pc = "while"
    /\ LoopEnds(done, ep_t, max_episode_len)
    /\ calls' = Append(calls, StopEv)
    /\ scores' = Append(scores, Float64(test_r))
    /\ ep_i' = ep_i + 1
    /\ ep_pc' = "for"
    /\ UNCHANGED <<evaluator, n_runs, max_episode_len, ep_t, done, test_r, result>>

\* The for loop is exhausted: mean, median and stdev are computed and
\* returned.  statistics.mean raises StatisticsError on an empty list and
\* statistics.stdev on fewer than two scores.
ComputeStatistics ==
    LET raises == scores = <<>> \/ (HasStdev(n_runs) /\ Len(scores) < 2)
    IN  /\ ep_pc = "for"
        /\ ep_i >= n_runs
        /\ ep_pc' = IF raises THEN "raised" ELSE "returned"
        /\ result' = IF raises THEN NoResult
                     ELSE [mean |-> StatMean(scores),
                           median |-> StatMedian(scores),
                           stdev |-> IF HasStdev(n_runs) THEN StatStdev(scores)
                                     ELSE Zero]
        /\ UNCHANGED <<evaluator, n_runs, max_episode_len, ep_i, ep_t, done, test_r,
                       scores, calls>>

EvalPerformanceNext ==
    \/ ResetEnv
    \/ \E r \in Rewards, d \in BOOLEAN : EnvStep(r, d)
    \/ StopEpisode
    \/ ComputeStatistics

EvalPerformanceSpec == EvalPerformanceInit /\ [][EvalPerformanceNext]_vars

\* The process that runs eval_performance keeps running, and env.reset,
\* env.step, the action selection and agent.stop_episode return.
EvalPerformanceFairSpec == EvalPerformanceSpec /\ WF_vars(EvalPerformanceNext)

(* ============================== claims ================================ *)
\* C1: when a call Evaluator.evaluate_if_necessary(t) has returned: if t was
\* below prev_eval_t + eval_interval it returned None, ran no evaluation and
\* wrote no row; otherwise it ran exactly one eval_performance pass, wrote
\* exactly one row, returned that pass's mean and left prev_eval_t at
\* t - t % eval_interval.
C1_EvaluateIfNecessary ==
    (kind = "Evaluator" /\ pc[Main] = "done") =>
        LET p == obs[Main].prev_at_call
            tt == t[Main]
        IN  IF tt < p + eval_interval
            THEN /\ ret[Main] = None
                 /\ obs[Main].passes = 0
                 /\ obs[Main].rows = 0
                 /\ prev_eval_t = p
            ELSE /\ obs[Main].passes = 1
                 /\ obs[Main].rows = 1
                 /\ ret[Main] \in Means
                 /\ ret[Main] = mean[Main]
                 /\ prev_eval_t = tt - (tt % eval_interval)

\* An evaluation at a step off the interval grid.
C1_Witness ==
    /\ kind = "Evaluator"
    /\ pc[Main] = "done"
    /\ ret[Main] \in Means
    /\ t[Main] % eval_interval # 0
    /\ prev_eval_t < t[Main]

\* C2 as stated: a call of AsyncEvaluator.evaluate_if_necessary that finds
\* t >= prev_eval_t + eval_interval performs exactly one evaluation and
\* advances prev_eval_t to t - t % eval_interval; one that finds
\* t < prev_eval_t + eval_interval returns None.
C2_Original ==
    \A w \in Workers :
        (kind = "AsyncEvaluator" /\ pc[w] = "done") =>
            IF t[w] >= obs[w].found + eval_interval
            THEN /\ obs[w].passes = 1
                 /\ obs[w].rows = 1
                 /\ ret[w] = mean[w]
                 /\ obs[w].prev_after = t[w] - (t[w] % eval_interval)
            ELSE /\ ret[w] = None
                 /\ obs[w].passes = 0

\* C2 amended: the call that finds t >= prev_eval_t + eval_interval performs
\* exactly one evaluation and advances prev_eval_t by exactly eval_interval,
\* which is t - t % eval_interval only if t is less than two intervals ahead
\* and is below it otherwise; the call that finds t below returns None.
C2_AdvancesByOneInterval ==
    \A w \in Workers :
        (kind = "AsyncEvaluator" /\ pc[w] = "done") =>
            IF t[w] >= obs[w].found + eval_interval
            THEN /\ obs[w].passes = 1
                 /\ obs[w].rows = 1
                 /\ ret[w] = mean[w]
                 /\ ret[w] \in Means
                 /\ obs[w].prev_after = obs[w].found + eval_interval
                 /\ obs[w].prev_after <= t[w] - (t[w] % eval_interval)
                 /\ (obs[w].prev_after = t[w] - (t[w] % eval_interval))
                        <=> (t[w] < obs[w].found + 2 * eval_interval)
            ELSE /\ ret[w] = None
                 /\ obs[w].passes = 0
                 /\ obs[w].rows = 0
                 /\ obs[w].prev_after = None

\* A worker has evaluated at a t two or more intervals ahead of prev_eval_t.
C2_Witness ==
    \E w \in Workers :
        /\ kind = "AsyncEvaluator"
        /\ pc[w] = "done"
        /\ necessary[w]
        /\ t[w] >= obs[w].found + 2 * eval_interval

\* The comparison of an evaluation's mean with max_score has been made.
Compared(w) ==
    \/ kind = "AsyncEvaluator" /\ pc[w] = "rel_max"
    \/ kind = "Evaluator" /\ w = Main /\ pc[w] = "done" /\ necessary[w]

\* C3: once an evaluation has compared its mean with max_score, it has saved
\* a checkpoint and assigned max_score if and only if the mean was strictly
\* greater than the max_score it was compared with; otherwise max_score is
\* what it was.
C3_CheckpointIffStrictlyGreater ==
    \A w \in Workers :
        Compared(w) =>
            /\ obs[w].saved <=> (mean[w] > obs[w].old_max)
            /\ obs[w].assigned <=> (mean[w] > obs[w].old_max)
            /\ (mean[w] <= obs[w].old_max) => (max_score = obs[w].old_max)
            /\ obs[w].saved =>
                   /\ checkpoints # <<>>
                   /\ Last(checkpoints).t = t[w]
                   /\ Last(checkpoints).mean = mean[w]

\* An AsyncEvaluator evaluation whose mean equals the recorded max_score.
C3_Witness ==
    \E w \in Workers :
        /\ kind = "AsyncEvaluator"
        /\ pc[w] = "rel_max"
        /\ mean[w] = obs[w].old_max
        /\ ~obs[w].saved
        /\ checkpoints # <<>>

\* The call of w has left the critical section of prev_eval_t.
Decided(w) == pc[w] \notin {"idle", "rd_max", "acq_prev", "incr", "rel_prev"}

\* t[w] was due for the window that was open when the call of w started.
DueForStartWindow(w) ==
    /\ t[w] >= obs[w].prev_at_call + eval_interval
    /\ t[w] < obs[w].prev_at_call + 2 * eval_interval

\* C4: of two workers whose calls started with the same prev_eval_t and with
\* step values due for that window, the one that claimed the window evaluates
\* and the other returns None: never both, and neither only if the window was
\* claimed by a third worker.
C4_OneClaimPerWindow ==
    \A w1, w2 \in Workers :
        ( /\ kind = "AsyncEvaluator"
          /\ w1 # w2
          /\ Decided(w1) /\ Decided(w2)
          /\ obs[w1].prev_at_call = obs[w2].prev_at_call
          /\ DueForStartWindow(w1) /\ DueForStartWindow(w2) ) =>
            LET k == (obs[w1].prev_at_call - InitialPrev) \div eval_interval + 1
            IN  /\ Len(claims) >= k
                /\ necessary[w1] <=> (claims[k].w = w1)
                /\ necessary[w2] <=> (claims[k].w = w2)
                /\ ~necessary[w1] => (pc[w1] = "done" /\ ret[w1] = None)
                /\ ~necessary[w2] => (pc[w2] = "done" /\ ret[w2] = None)

\* Two concurrent calls due for the same window: one evaluates, one got None.
C4_Witness ==
    \E w1, w2 \in Workers :
        /\ kind = "AsyncEvaluator"
        /\ w1 # w2
        /\ obs[w1].prev_at_call = obs[w2].prev_at_call
        /\ DueForStartWindow(w1) /\ DueForStartWindow(w2)
        /\ necessary[w1] /\ pc[w1] = "eval"
        /\ ~necessary[w2] /\ pc[w2] = "done"

\* The call of w has left the critical section of wrote_header.
PastHeader(w) ==
    \/ pc[w] \in {"eval", "record", "acq_max", "save", "set_max", "rel_max"}
    \/ pc[w] = "done" /\ necessary[w]

\* C5: the header of scores.txt is never written twice; it has been written
\* exactly once, and wrote_header is set, whenever a worker that claimed an
\* evaluation has passed the wrote_header check; it is written only after an
\* evaluation was claimed.
C5_HeaderWrittenOnce ==
    (kind = "AsyncEvaluator") =>
        /\ header_writes <= 1
        /\ wrote_header <=> (header_writes = 1)
        /\ \A w \in Workers : PastHeader(w) => header_writes = 1
        /\ (header_writes = 1) => claims # <<>>

\* Two workers have both claimed an evaluation and passed the header check.
C5_Witness ==
    \E w1, w2 \in Workers :
        /\ kind = "AsyncEvaluator"
        /\ w1 # w2
        /\ PastHeader(w1) /\ PastHeader(w2)
        /\ header_writes = 1

\* w is inside update_best_model: the checkpoint save is in progress.
Saving(w) == pc[w] = "save"

\* C6: at most one worker is saving a best-model checkpoint, and that worker
\* holds the lock of max_score.
C6_OneCheckpointSaveAtATime ==
    (kind = "AsyncEvaluator") =>
        /\ \A w1, w2 \in Workers : (Saving(w1) /\ Saving(w2)) => w1 = w2
        /\ \A w \in Workers : Saving(w) => max_lock = w

\* One worker saves a checkpoint while another runs its evaluation episodes.
C6_Witness ==
    \E w1, w2 \in Workers :
        /\ kind = "AsyncEvaluator"
        /\ Saving(w1)
        /\ pc[w2] = "eval"

\* C7 as stated: no two best-score updates of a run save to the same
\* directory name outdir/<t>.
C7_Original ==
    \A i, j \in 1..Len(checkpoints) :
        (i # j) => checkpoints[i].t # checkpoints[j].t

\* C7 amended: in Evaluator every best-score update saves to a name outdir/<t>
\* with t greater than that of every earlier update.  In AsyncEvaluator the
\* name is the t of the saving call; two updates save to the same name only
\* if their calls passed the same t and claimed different evaluation windows,
\* so that t was two or more intervals ahead of the earlier window.
C7_DistinctNamesPerWindow ==
    \A i, j \in 1..Len(checkpoints) :
        (i < j) =>
            /\ (kind = "Evaluator") => checkpoints[i].t < checkpoints[j].t
            /\ checkpoints[i].window # checkpoints[j].window
            /\ (checkpoints[i].t = checkpoints[j].t) =>
                   \/ checkpoints[i].t >= checkpoints[j].window + 2 * eval_interval
                   \/ checkpoints[j].t >= checkpoints[i].window + 2 * eval_interval

\* AsyncEvaluator has saved two best-model checkpoints to the same name.
C7_Witness ==
    /\ kind = "AsyncEvaluator"
    /\ \E i, j \in 1..Len(checkpoints) :
           i < j /\ checkpoints[i].t = checkpoints[j].t

\* The evaluations of Evaluator that ended without an exception, in order.
IsCompleted(c) == c.failed = "none"
Completed == SelectSeq(claims, IsCompleted)

\* C8 as stated: two successive evaluations of Evaluator happen at t1 < t2
\* with t2 - t1 >= eval_interval.
C8_Original ==
    (kind = "Evaluator") =>
        \A i \in 1..(Len(Completed) - 1) :
            /\ Completed[i].t < Completed[i + 1].t
            /\ Completed[i + 1].t - Completed[i].t >= eval_interval

\* C8 amended: two successive evaluations of Evaluator that ended without an
\* exception happen at t1 < t2 that lie in different cells of the interval
\* grid, t2 >= (t1 - t1 % eval_interval) + eval_interval; the gap t2 - t1 is at
\* least eval_interval - t1 % eval_interval, which is eval_interval only when
\* t1 is on the grid.
C8_SuccessiveEvaluationsInLaterCells ==
    (kind = "Evaluator") =>
        \A i \in 1..(Len(Completed) - 1) :
            LET t1 == Completed[i].t
                t2 == Completed[i + 1].t
            IN  /\ t1 < t2
                /\ t2 >= (t1 - (t1 % eval_interval)) + eval_interval
                /\ t2 - t1 >= eval_interval - (t1 % eval_interval)

\* Two successive evaluations less than eval_interval apart.
C8_Witness ==
    /\ kind = "Evaluator"
    /\ \E i \in 1..(Len(Completed) - 1) :
           Completed[i + 1].t - Completed[i].t < eval_interval

\* C9 as stated: the value the max_score accessor reads is the initial value
\* or the mean of an evaluation whose comparison has completed, it is the
\* maximum of the initial value and all those means, and no worker is between
\* saving a checkpoint and assigning max_score.
C9_Original ==
    \A w \in Workers :
        (kind = "AsyncEvaluator" /\ pc[w] = "rd_max") =>
            /\ v[w] \in ({Float32Min} \cup committed)
            /\ v[w] = SetMax({Float32Min} \cup committed)
            /\ \A u \in Workers : pc[u] # "set_max"

\* No evaluation is between its comparison with max_score and its end.
NoCompareInProgress == \A w \in Workers : pc[w] \notin {"save", "set_max", "rel_max"}

\* C10 as stated: when no comparison is in progress and an evaluation has
\* completed, the latest best-model checkpoint has the highest mean of all
\* completed evaluations and max_score is that mean.
C10_Original ==
    (NoCompareInProgress /\ committed # {}) =>
        /\ checkpoints # <<>>
        /\ Last(checkpoints).mean = SetMax(committed)
        /\ max_score = SetMax(committed)

\* C11: while a worker is saving a checkpoint under the lock of max_score it
\* holds neither other lock, and every other worker's next step of its
\* evaluation-due check, of the header check and of its evaluation can be
\* taken: the test as soon as the lock of prev_eval_t is free, the increment
\* and the release at once.
C11_SaveDoesNotBlockDueCheck ==
    \A w1, w2 \in Workers :
        (kind = "AsyncEvaluator" /\ Saving(w1) /\ w1 # w2) =>
            /\ max_lock = w1 /\ prev_lock # w1 /\ header_lock # w1
            /\ (pc[w2] = "acq_prev" /\ prev_lock = 0) => ENABLED TestDue(w2)
            /\ (pc[w2] = "incr") => ENABLED ClaimEvaluation(w2)
            /\ (pc[w2] = "rel_prev") => ENABLED ReleasePrevLock(w2)
            /\ (pc[w2] = "acq_hdr" /\ header_lock = 0) => ENABLED WriteHeaderIfFirst(w2)
            /\ (pc[w2] = "rel_hdr") => ENABLED ReleaseHeaderLock(w2)
            /\ (pc[w2] = "eval") => ENABLED (\E m \in Means : EvalPerformance(w2, m))

\* One worker is saving a checkpoint and another is about to make its
\* evaluation-due check, the lock of prev_eval_t being free.
C11_Witness ==
    \E w1, w2 \in Workers :
        /\ kind = "AsyncEvaluator"
        /\ Saving(w1)
        /\ pc[w2] = "acq_prev"
        /\ prev_lock = 0
        /\ t[w2] >= prev_eval_t + eval_interval

\* w holds one of the three locks.
HoldsALock(w) == prev_lock = w \/ header_lock = w \/ max_lock = w

\* C12: a call in which a step raised has ended with that exception and not
\* with a return value, holds no lock, and has executed none of the steps
\* that follow the failing one: no pass and no row after a failure of
\* write_header or of the episodes, no row after a failure of the log write,
\* no checkpoint and no assignment of max_score after any failure; a call
\* that returned normally had no failure.
C12_FailureAbortsTheCall ==
    \A w \in Workers :
        /\ (pc[w] = "done") => (obs[w].failed = "none")
        /\ (obs[w].failed # "none") =>
               /\ pc[w] = "raised"
               /\ ret[w] = None
               /\ ~HoldsALock(w)
               /\ ~obs[w].saved
               /\ ~obs[w].assigned
               /\ (obs[w].failed \in {"header", "episodes"}) =>
                      (obs[w].passes = 0 /\ mean[w] = None)
               /\ (obs[w].failed \in {"header", "episodes", "log"}) =>
                      (obs[w].rows = 0)
               /\ (obs[w].failed \in {"log", "save"}) => (obs[w].passes = 1)
               /\ (obs[w].failed = "save") =>
                      (obs[w].rows = 1 /\ mean[w] > obs[w].old_max)
               /\ (kind = "Evaluator") => (max_score = obs[w].old_max)

\* A worker's call ended by a failure of agent.save, after its row was written
\* and while another worker is evaluating.
C12_Witness ==
    \E w1, w2 \in Workers :
        /\ kind = "AsyncEvaluator"
        /\ pc[w1] = "raised"
        /\ obs[w1].failed = "save"
        /\ obs[w1].rows = 1
        /\ pc[w2] = "record"

\* C20: after a call of Evaluator.evaluate_if_necessary(t) in which a step
\* raised, prev_eval_t and max_score are what they were before the call, t is
\* still due, and the next call with the same t, if nothing raises, runs the
\* evaluation and returns its mean.
C20_FailedEvaluationStaysDue ==
    (kind = "Evaluator" /\ obs[Main].failed # "none") =>
        /\ pc[Main] = "raised"
        /\ prev_eval_t = obs[Main].prev_at_call
        /\ max_score = obs[Main].old_max
        /\ t[Main] >= prev_eval_t + eval_interval
        /\ ENABLED (\E m \in Means :
                        /\ EvaluateIfNecessary(t[Main], m, "none")
                        /\ obs'[Main].passes = 1
                        /\ ret'[Main] = m
                        /\ prev_eval_t' = t[Main] - (t[Main] % eval_interval))

\* An evaluation that failed in agent.save was run again at the same t and
\* completed.
C20_Witness ==
    /\ kind = "Evaluator"
    /\ pc[Main] = "done"
    /\ Len(claims) >= 2
    /\ claims[Len(claims) - 1].failed = "save"
    /\ claims[Len(claims) - 1].t = t[Main]
    /\ Last(claims).failed = "none"
    /\ ret[Main] \in Means

\* The evaluations whose episodes and whose log write both ended without an
\* exception, in the order in which they were started.
IsLogged(c) == c.failed \notin {"episodes", "log"}

Logged == SelectSeq(claims, IsLogged)

\* C14: for Evaluator, scores.txt is the header line alone after construction,
\* whatever the file held before, and afterwards the header followed by one
\* row per evaluation whose log write was carried out, in evaluation order,
\* each with the t of its evaluation in the steps column, new best or not.
C14_ScoresFileIsHeaderThenRows ==
    (kind = "Evaluator") =>
        /\ scores_txt # <<>>
        /\ scores_txt[1] = HeaderLine
        /\ header_writes = 1
        /\ Len(scores_txt) = 1 + Len(Logged)
        /\ \A i \in 1..Len(Logged) : scores_txt[i + 1] = Row(Logged[i].t)
        /\ (claims = <<>>) => (scores_txt = <<HeaderLine>>)

\* Two evaluations have been logged and the latest one was not a new best.
C14_Witness ==
    /\ kind = "Evaluator"
    /\ pc[Main] = "done"
    /\ Len(scores_txt) = 3
    /\ obs[Main].rows = 1
    /\ ~obs[Main].saved
    /\ scores_txt[3] = Row(t[Main])

\* C16: prev_eval_t is a multiple of eval_interval in every reachable state of
\* both classes; before the first evaluation it is step_offset rounded down to
\* a multiple of eval_interval; in Evaluator it is never greater than the t of
\* the latest evaluation, and after an evaluation that returned it is the
\* start of the interval that t lies in.
C16_PrevEvalTOnIntervalGrid ==
    /\ eval_interval > 0
    /\ prev_eval_t % eval_interval = 0
    /\ (claims = <<>>) =>
           /\ prev_eval_t = InitialPrev
           /\ prev_eval_t <= step_offset
           /\ step_offset < prev_eval_t + eval_interval
    /\ (kind = "Evaluator" /\ claims # <<>>) =>
           prev_eval_t <= Last(claims).t
    /\ (kind = "Evaluator" /\ claims # <<>> /\ Last(claims).failed = "none") =>
           Last(claims).t < prev_eval_t + eval_interval

\* prev_eval_t has been updated from a step offset and at a t that both lie
\* off the interval grid.
C16_Witness ==
    /\ step_offset % eval_interval # 0
    /\ claims # <<>>
    /\ Last(claims).t % eval_interval # 0
    /\ Last(claims).failed = "none"
    /\ prev_eval_t > InitialPrev
    /\ \A w \in Workers : pc[w] \in {"idle", "done"}

\* The largest t at which an evaluation has been claimed.
LargestClaimedT == SetMax({claims[k].t : k \in 1..Len(claims)})

\* C17: for AsyncEvaluator, prev_eval_t is its initial value plus
\* eval_interval times the number of evaluations claimed so far; the k-th
\* claim was made at a t that is at least the value prev_eval_t had after it;
\* so the number of claimed evaluations is at most
\* floor((T - initial prev_eval_t) / eval_interval) for T the largest t passed.
C17_ClaimsBoundedByElapsedIntervals ==
    (kind = "AsyncEvaluator") =>
        /\ prev_eval_t = InitialPrev + eval_interval * Len(claims)
        /\ \A k \in 1..Len(claims) :
               claims[k].t >= InitialPrev + k * eval_interval
        /\ \A w \in Workers :
               (obs[w].prev_after # None) => (t[w] >= obs[w].prev_after)
        /\ (claims # <<>>) =>
               Len(claims) <= (LargestClaimedT - InitialPrev) \div eval_interval

\* Two workers have each claimed an evaluation, and the number of claims has
\* reached the bound.
C17_Witness ==
    /\ kind = "AsyncEvaluator"
    /\ Len(claims) = 2
    /\ claims[1].w # claims[2].w
    /\ Len(claims) = (LargestClaimedT - InitialPrev) \div eval_interval

\* The rows that record_stats appended, in file order.
IsRow(line) == ~line.header /\ line.steps # None

DataRows(file) == SelectSeq(file, IsRow)

IsPrefix(a, b) == Len(a) <= Len(b) /\ \A i \in 1..Len(a) : a[i] = b[i]

\* C18: for AsyncEvaluator, under every interleaving, a worker appends its
\* row only after the header has been written: whenever the file holds a row,
\* the header has been written exactly once, it is the first line and all
\* lines after it are rows; and no step, the header write included, removes a
\* row from the file.
C18_HeaderBeforeAnyRow ==
    /\ [](kind = "AsyncEvaluator" =>
            /\ \A w \in Workers :
                   (pc[w] \in {"eval", "record"} \/ obs[w].rows > 0) =>
                       /\ wrote_header
                       /\ scores_txt # <<>>
                       /\ scores_txt[1] = HeaderLine
            /\ (DataRows(scores_txt) # <<>>) =>
                   /\ wrote_header
                   /\ header_writes = 1
                   /\ scores_txt = <<HeaderLine>> \o DataRows(scores_txt))
    /\ [][kind = "AsyncEvaluator" =>
              IsPrefix(DataRows(scores_txt), DataRows(scores_txt'))]_vars

\* A second worker has passed the header check while the file already holds
\* the header and the row of the first.
C18_Witness ==
    \E w \in Workers :
        /\ kind = "AsyncEvaluator"
        /\ pc[w] = "rel_hdr"
        /\ header_lock = w
        /\ Len(DataRows(scores_txt)) = 1
        /\ scores_txt = <<HeaderLine>> \o DataRows(scores_txt)

\* The number of locks that w holds.
LocksHeld(w) ==
    (IF prev_lock = w THEN 1 ELSE 0) + (IF header_lock = w THEN 1 ELSE 0)
        + (IF max_lock = w THEN 1 ELSE 0)

\* w is inside a call of evaluate_if_necessary or inside the max_score property.
InCall(w) == pc[w] \notin {"idle", "done", "raised"}

\* The lock that w is waiting to acquire, if any (0 is a free lock).
AwaitedLock(w) ==
    CASE pc[w] = "acq_prev" -> prev_lock
      [] pc[w] = "acq_hdr" -> header_lock
      [] pc[w] \in {"acq_max", "acq_rd"} -> max_lock
      [] OTHER -> 0

\* C19: for AsyncEvaluator, a worker holds at most one of the three locks, and
\* none while it waits for one; a worker inside a call can take a step unless
\* it waits for a lock, and then the holder of that lock can take a step; and
\* under fair scheduling every call of evaluate_if_necessary and every read of
\* max_score that has started eventually ends.
C19_AtMostOneLockAndEveryCallEnds ==
    /\ [](kind = "AsyncEvaluator" =>
            \A w \in Workers :
                /\ LocksHeld(w) <= 1
                /\ (AwaitedLock(w) # 0) => (LocksHeld(w) = 0)
                /\ (~InCall(w)) => (LocksHeld(w) = 0)
                /\ InCall(w) =>
                       \/ ENABLED WorkerStep(w)
                       \/ /\ AwaitedLock(w) \in Workers \ {w}
                          /\ ENABLED WorkerStep(AwaitedLock(w)))
    /\ \A w \in Workers : InCall(w) ~> ~InCall(w)

\* One worker waits for the max_score lock inside the property while the other
\* holds it inside update_best_model, and a third lock is held by nobody.
C19_Witness ==
    \E w1, w2 \in Workers :
        /\ kind = "AsyncEvaluator"
        /\ pc[w1] = "acq_rd"
        /\ pc[w2] = "save"
        /\ max_lock = w2
        /\ LocksHeld(w2) = 1

\* The positions in calls of the calls of one kind, and the number of
\* env.step calls of the episode that position p belongs to, up to p.
CallsOf(op) == {p \in 1..Len(calls) : calls[p].op = op}

EpisodeStart(p) ==
    LET resets == {q \in CallsOf("reset") : q <= p}
    IN  IF resets = {} THEN 1 ELSE SetMax(resets)

StepsIn(p) == Cardinality({q \in CallsOf("step") : EpisodeStart(p) <= q /\ q <= p})

Ended == ep_pc \in {"returned", "raised"}

\* C13: eval_performance runs the episodes one after the other and n_runs of
\* them by the time it ends; an episode is env.reset(), then pairs of action
\* selection and env.step, the next pair only if the last step did not signal
\* done and the number of steps is not max_episode_len, then one
\* agent.stop_episode(), which comes only after done or after max_episode_len
\* steps, and then the next reset; an episode has at most max_episode_len
\* steps when that is set; and with max_episode_len set the call ends
\* whatever the environment signals.
C13_EpisodesInOrderAndCapped ==
    /\ [](ep_pc # "idle" =>
            /\ ep_i <= n_runs
            /\ Len(scores) = ep_i
            /\ Cardinality(CallsOf("stop_episode")) = ep_i
            /\ Cardinality(CallsOf("reset")) =
                   ep_i + (IF ep_pc = "while" THEN 1 ELSE 0)
            /\ Ended => (ep_i = n_runs)
            /\ (ep_pc = "while") => (ep_t = StepsIn(Len(calls)))
            /\ \A p \in 1..Len(calls) :
                   /\ (calls[p].op = "reset") =>
                          (p = 1 \/ calls[p - 1].op = "stop_episode")
                   /\ (calls[p].op = "act") =>
                          /\ p > 1
                          /\ calls[p - 1].op \in {"reset", "step"}
                          /\ ~calls[p - 1].done
                          /\ StepsIn(p) # max_episode_len
                          /\ p < Len(calls)
                          /\ calls[p + 1].op = "step"
                   /\ (calls[p].op = "step") =>
                          (p > 1 /\ calls[p - 1].op = "act")
                   /\ (calls[p].op = "stop_episode") =>
                          /\ p > 1
                          /\ calls[p - 1].op \in {"reset", "step"}
                          /\ calls[p - 1].done \/ StepsIn(p) = max_episode_len
                   /\ (max_episode_len # None) =>
                          (StepsIn(p) <= max_episode_len))
    /\ (ep_pc # "idle" /\ max_episode_len # None) ~> Ended

\* Two episodes have been run: one ended by the cap without the environment
\* signalling done, the other by done before the cap.
C13_Witness ==
    /\ ep_pc = "returned"
    /\ n_runs = 2
    /\ max_episode_len = 2
    /\ \E p \in CallsOf("stop_episode") :
           calls[p - 1].op = "step" /\ ~calls[p - 1].done /\ StepsIn(p) = 2
    /\ \E p \in CallsOf("stop_episode") :
           calls[p - 1].op = "step" /\ calls[p - 1].done /\ StepsIn(p) = 1

\* The total reward of the steps made so far.
TotalReward == Sum([p \in 1..Len(calls) |-> calls[p].r])

\* C15: with n_runs = 1, eval_performance returns (it does not raise), its
\* stdev is exactly 0, and its mean and its median are both the total reward
\* of the single episode.
C15_SingleRunStatistics ==
    (n_runs = 1 /\ Ended) =>
        /\ ep_pc = "returned"
        /\ result.stdev = Zero
        /\ result.stdev = [num |-> 0, den |-> 1, root |-> 1]
        /\ result.mean = [num |-> TotalReward, den |-> 1, root |-> 1]
        /\ result.median = [num |-> TotalReward, den |-> 1, root |-> 1]

\* A single episode of two steps with total reward 2 has been evaluated.
C15_Witness ==
    /\ n_runs = 1
    /\ ep_pc = "returned"
    /\ Cardinality(CallsOf("step")) = 2
    /\ TotalReward = 2
    /\ result.mean.num = 2

====
